---- MODULE Spec2Model ----
(***************************************************************************)
(* A model of the star-registry ledger: Block (src/block.js) and the final *)
(* draft of Blockchain (src/unnamed/part_000, lines 396-823).              *)
(*                                                                         *)
(* JavaScript strings are sequences of characters; a character is a TLA+   *)
(* string naming it ("a", ":", "7", "deg" for U+00B0).  Objects live in a  *)
(* heap and are referred to by their index, so that the chain array and a  *)
(* value handed to a caller can name the same Block object.  Promise       *)
(* reactions and await continuations are jobs of a FIFO microtask queue.   *)
(***************************************************************************)
EXTENDS Integers, Sequences, FiniteSets, TLC

(***************************************************************************)
(* Bounds of the model.                                                    *)
(***************************************************************************)
MaxChain == 3          \* blocks in the chain, genesis included
MaxTicks == 1          \* clock advances explored
StartClock == 1000500  \* the clock (ms) at construction
TickMs == 700          \* one clock advance (ms)
MaxConcurrent == 2     \* calls a caller keeps in flight at once

(***************************************************************************)
(* Strings and numbers.                                                    *)
(***************************************************************************)
Digits == <<"0", "1", "2", "3", "4", "5", "6", "7", "8", "9">>

IsDigit(ch) == \E i \in 1..10 : Digits[i] = ch

DigitVal(ch) == (CHOOSE i \in 1..10 : Digits[i] = ch) - 1

\* Number.prototype.toString() of a non-negative integer
RECURSIVE NumToString(_)
NumToString(n) ==
    IF n < 10 THEN <<Digits[n + 1]>>
    ELSE NumToString(n \div 10) \o <<Digits[(n % 10) + 1]>>

\* String.prototype.slice(0, -3)
SliceOff3(s) == IF Len(s) <= 3 THEN <<>> ELSE SubSeq(s, 1, Len(s) - 3)

\* new Date().getTime().toString().slice(0, -3) at clock ms
SecondsString(ms) == SliceOff3(NumToString(ms))

\* a value of a field that holds a number in one place and a string in
\* another: its type, and the text toString() or JSON.stringify show for it
JSNumber(n) == [type |-> "number", text |-> NumToString(n)]
JSString(s) == [type |-> "string", text |-> s]

NaN == [nan |-> TRUE, val |-> 0]
Num(n) == [nan |-> FALSE, val |-> n]

RECURSIVE DigitsValue(_)
DigitsValue(s) ==
    IF s = <<>> THEN 0
    ELSE 10 * DigitsValue(SubSeq(s, 1, Len(s) - 1)) + DigitVal(s[Len(s)])

\* the length of the longest prefix of s made of digits
DigitPrefixLen(s) ==
    IF \A i \in 1..Len(s) : IsDigit(s[i]) THEN Len(s)
    ELSE (CHOOSE i \in 1..Len(s) :
              /\ ~IsDigit(s[i])
              /\ \A j \in 1..(i - 1) : IsDigit(s[j])) - 1

\* parseInt(s): the leading digits of s, NaN when there are none
ParseInt(s) ==
    LET k == DigitPrefixLen(s)
    IN  IF k = 0 THEN NaN ELSE Num(DigitsValue(SubSeq(s, 1, k)))

\* String.prototype.split(sep): the segments of s between occurrences of sep
RECURSIVE Split(_, _)
Split(s, sep) ==
    IF \A i \in 1..Len(s) : s[i] # sep THEN <<s>>
    ELSE LET k == CHOOSE i \in 1..Len(s) :
                      s[i] = sep /\ \A j \in 1..(i - 1) : s[j] # sep
         IN  <<SubSeq(s, 1, k - 1)>> \o Split(SubSeq(s, k + 1, Len(s)), sep)

\* parseInt(segments[n]); segments[n] is undefined past the end, and
\* parseInt(undefined) is NaN
ParseIntAt(segments, n) ==
    IF n <= Len(segments) THEN ParseInt(segments[n]) ELSE NaN

(***************************************************************************)
(* The body codec: Buffer(JSON.stringify(data)).toString('hex') in the     *)
(* Block constructor, hex2ascii and JSON.parse in getBData.  A data object *)
(* is the sequence of its <<key, value>> properties, keys and values being *)
(* strings.  A byte of the body is named by the ASCII character it encodes *)
(* ("c2", "b0" are the two bytes UTF-8 gives U+00B0).                      *)
(***************************************************************************)
Quote == "\""
Backslash == "\\"

RECURSIVE EscapeString(_)
EscapeString(s) ==
    IF s = <<>> THEN <<>>
    ELSE (IF Head(s) \in {Quote, Backslash} THEN <<Backslash, Head(s)>>
          ELSE <<Head(s)>>) \o EscapeString(Tail(s))

JSONString(s) == <<Quote>> \o EscapeString(s) \o <<Quote>>

RECURSIVE JSONMembers(_)
JSONMembers(obj) ==
    IF obj = <<>> THEN <<>>
    ELSE JSONString(obj[1][1]) \o <<":">> \o JSONString(obj[1][2])
         \o (IF Len(obj) > 1 THEN <<",">> \o JSONMembers(Tail(obj)) ELSE <<>>)

\* JSON.stringify(data) of a data object
JSONstringifyData(obj) == <<"{">> \o JSONMembers(obj) \o <<"}">>

Utf8(ch) == IF ch = "deg" THEN <<"c2", "b0">> ELSE <<ch>>

\* Buffer(text).toString('hex')
RECURSIVE BufferHex(_)
BufferHex(text) ==
    IF text = <<>> THEN <<>> ELSE Utf8(Head(text)) \o BufferHex(Tail(text))

FromCharCode(byte) ==
    IF byte = "c2" THEN "Acirc" ELSE IF byte = "b0" THEN "deg" ELSE byte

\* hex2ascii(body): one character per byte
hex2ascii(body) == [i \in 1..Len(body) |-> FromCharCode(body[i])]

SyntaxError == [ok |-> FALSE, obj |-> <<>>]
NoString == [ok |-> FALSE, val |-> <<>>, next |-> 0]

RECURSIVE ScanString(_, _, _)
ScanString(t, j, acc) ==
    IF j > Len(t) THEN NoString
    ELSE IF t[j] = Quote THEN [ok |-> TRUE, val |-> acc, next |-> j + 1]
    ELSE IF t[j] = Backslash
         THEN IF j + 1 <= Len(t) /\ t[j + 1] \in {Quote, Backslash}
              THEN ScanString(t, j + 2, Append(acc, t[j + 1]))
              ELSE NoString
    ELSE ScanString(t, j + 1, Append(acc, t[j]))

\* the string literal that starts at t[i]
ReadString(t, i) ==
    IF i <= Len(t) /\ t[i] = Quote THEN ScanString(t, i + 1, <<>>) ELSE NoString

RECURSIVE ReadMembers(_, _, _)
ReadMembers(t, i, acc) ==
    LET k == ReadString(t, i)
    IN  IF ~k.ok \/ k.next > Len(t) \/ t[k.next] # ":" THEN SyntaxError
        ELSE LET v == ReadString(t, k.next + 1)
             IN  IF ~v.ok \/ v.next > Len(t) THEN SyntaxError
                 ELSE IF t[v.next] = ","
                      THEN ReadMembers(t, v.next + 1, Append(acc, <<k.val, v.val>>))
                 ELSE IF t[v.next] = "}" /\ v.next = Len(t)
                      THEN [ok |-> TRUE, obj |-> Append(acc, <<k.val, v.val>>)]
                 ELSE SyntaxError

\* JSON.parse(text) of the text of a data object; ok = FALSE is a thrown
\* SyntaxError
JSONparse(t) ==
    IF t = <<"{", "}">> THEN [ok |-> TRUE, obj |-> <<>>]
    ELSE IF Len(t) >= 2 /\ t[1] = "{" THEN ReadMembers(t, 2, <<>>)
    ELSE SyntaxError

Undefined == [defined |-> FALSE, val |-> <<>>]

\* obj[key]: the last property of that name, undefined when there is none
Prop(obj, key) ==
    IF \A i \in 1..Len(obj) : obj[i][1] # key THEN Undefined
    ELSE LET k == CHOOSE i \in 1..Len(obj) :
                      obj[i][1] = key /\ \A j \in (i + 1)..Len(obj) : obj[j][1] # key
         IN  [defined |-> TRUE, val |-> obj[k][2]]

GenesisData == << <<(<<"data">>), (<<"Genesis Block">>)>> >>

StarData(address, star) == << <<(<<"owner">>), address>>, <<(<<"star">>), star>> >>

(***************************************************************************)
(* Block (src/block.js).                                                   *)
(***************************************************************************)
Null == <<>>

\* new Block(data)
NewBlock(data) ==
    [hash |-> Null,
     height |-> 0,
     body |-> BufferHex(JSONstringifyData(data)),
     time |-> JSNumber(0),
     previousBlockHash |-> Null]

\* a variant that leaves the time out of the text
JSONstringifyBlockNoTime(b) ==
    << <<"hash", b.hash>>, <<"height", b.height>>, <<"body", b.body>>,
       <<"previousBlockHash", b.previousBlockHash>> >>

\* JSON.stringify(block): the properties in creation order
JSONstringifyBlock(b) ==
    << <<"hash", b.hash>>, <<"height", b.height>>, <<"body", b.body>>,
       <<"time", b.time>>, <<"previousBlockHash", b.previousBlockHash>> >>

\* SHA256(text).toString(): a digest that no two texts share
SHA256(text) == <<"sha256", text>>

\* a variant that does not put the saved hash back
ValidateNoRestore(b) ==
    LET blockHash == b.hash
        cleared == [b EXCEPT !.hash = Null]
        recalculatedHash == SHA256(JSONstringifyBlock(cleared))
    IN  [block |-> cleared,
         status |-> "resolved",
         value |-> (recalculatedHash = blockHash)]

\* Block.validate(): the object after the call and how the promise settles
Validate(b) ==
    LET blockHash == b.hash
        cleared == [b EXCEPT !.hash = Null]
        recalculatedHash == SHA256(JSONstringifyBlock(cleared))
        restored == [cleared EXCEPT !.hash = blockHash]
    IN  [block |-> restored,
         status |-> "resolved",
         value |-> (recalculatedHash = blockHash)]

\* a variant that tells the genesis block by its height
GetBDataByHeight(b) ==
    LET decodedData == hex2ascii(b.body)
        dataObj == JSONparse(decodedData)
    IN  IF ~dataObj.ok
        THEN [thrown |-> TRUE, status |-> "none", value |-> <<>>]
        ELSE IF b.height > 0
        THEN [thrown |-> FALSE, status |-> "resolved", value |-> dataObj.obj]
        ELSE [thrown |-> FALSE, status |-> "rejected", value |-> <<>>]

\* a variant without the test for the genesis data
GetBDataNoGenesisCheck(b) ==
    LET decodedData == hex2ascii(b.body)
        dataObj == JSONparse(decodedData)
    IN  IF ~dataObj.ok
        THEN [thrown |-> TRUE, status |-> "none", value |-> <<>>]
        ELSE [thrown |-> FALSE, status |-> "resolved", value |-> dataObj.obj]

\* Block.getBData(): thrown = TRUE when JSON.parse throws before the promise
\* is made; otherwise the promise resolves with the data or rejects
GetBData(b) ==
    LET decodedData == hex2ascii(b.body)
        dataObj == JSONparse(decodedData)
    IN  IF ~dataObj.ok
        THEN [thrown |-> TRUE, status |-> "none", value |-> <<>>]
        ELSE IF Prop(dataObj.obj, <<"data">>) # [defined |-> TRUE, val |-> <<"Genesis Block">>]
        THEN [thrown |-> FALSE, status |-> "resolved", value |-> dataObj.obj]
        ELSE [thrown |-> FALSE, status |-> "rejected", value |-> <<>>]

(***************************************************************************)
(* Blockchain (src/unnamed/part_000, the final draft).  A ledger value is  *)
(* [heap, chain, height]: heap[r] is the Block object r, chain the array   *)
(* of object references (chain[i + 1] is the code's self.chain[i]).        *)
(***************************************************************************)

\* a variant that links every block to the genesis block: self.chain[0]
PreviousHashForFirst(heap, chain, previousBlockHeight) ==
    IF previousBlockHeight = -1 THEN Null ELSE heap[chain[1]].hash

\* block.previousBlockHash as _addBlock assigns it
PreviousHashFor(heap, chain, previousBlockHeight) ==
    IF previousBlockHeight = -1 THEN Null
    ELSE heap[chain[previousBlockHeight + 1]].hash

\* block.height as _addBlock assigns it
HeightFor(previousBlockHeight) == previousBlockHeight + 1

\* block.hash as _addBlock assigns it: the block is stringified as it stands
HashFor(b) == SHA256(JSONstringifyBlock(b))

\* a variant that takes the new array length for the height
HeightAfterPushLength(height, pushed) == pushed

\* a variant that leaves self.height as it was
HeightAfterPushStale(height, pushed) == height

\* self.height after a push that returned pushed (the new array length)
HeightAfterPush(height, pushed) == IF pushed # 0 THEN height + 1 ELSE height

\* a variant whose array takes no element beyond the second: push gives 0
AddBlockArrayFull(L, r, ms) ==
    LET h1 == [L.heap EXCEPT ![r].time = JSString(SecondsString(ms))]
        previousBlockHeight == L.height
        h2 == [h1 EXCEPT ![r].height = HeightFor(previousBlockHeight)]
        h3 == [h2 EXCEPT ![r].previousBlockHash =
                   PreviousHashFor(h2, L.chain, previousBlockHeight)]
        h4 == [h3 EXCEPT ![r].hash = HashFor(h3[r])]
        chain2 == IF Len(L.chain) < 2 THEN Append(L.chain, r) ELSE L.chain
        pushed == IF Len(L.chain) < 2 THEN Len(chain2) ELSE 0
    IN  [heap |-> h4,
         chain |-> chain2,
         height |-> HeightAfterPush(L.height, pushed),
         status |-> IF pushed # 0 THEN "resolved" ELSE "rejected"]

\* _addBlock(block) on object r at clock ms: the ledger after the call and
\* how the promise settles
AddBlock(L, r, ms) ==
    LET h1 == [L.heap EXCEPT ![r].time = JSString(SecondsString(ms))]
        previousBlockHeight == L.height
        h2 == [h1 EXCEPT ![r].height = HeightFor(previousBlockHeight)]
        h3 == [h2 EXCEPT ![r].previousBlockHash =
                   PreviousHashFor(h2, L.chain, previousBlockHeight)]
        h4 == [h3 EXCEPT ![r].hash = HashFor(h3[r])]
        chain2 == Append(L.chain, r)
        pushed == Len(chain2)
    IN  [heap |-> h4,
         chain |-> chain2,
         height |-> HeightAfterPush(L.height, pushed),
         status |-> IF pushed # 0 THEN "resolved" ELSE "rejected"]

\* the constructor: an empty chain, then initializeChain()
EmptyLedger == [heap |-> <<>>, chain |-> <<>>, height |-> -1]

\* a variant without the test of the height
InitializeChainAlways(L, ms) ==
    LET created == [L EXCEPT !.heap = Append(L.heap, NewBlock(GenesisData))]
    IN  AddBlock(created, Len(created.heap), ms)

InitializeChain(L, ms) ==
    IF L.height = -1
    THEN LET created == [L EXCEPT !.heap = Append(L.heap, NewBlock(GenesisData))]
         IN  AddBlock(created, Len(created.heap), ms)
    ELSE L

\* a variant that keeps the milliseconds
ChallengeMessageMs(address, ms) ==
    address \o <<":">> \o NumToString(ms) \o <<":", "starRegistry">>

\* `${address}:${new Date().getTime().toString().slice(0, -3)}:starRegistry`
ChallengeMessage(address, ms) ==
    address \o <<":">> \o SecondsString(ms) \o <<":", "starRegistry">>

\* a variant with the threshold of the draft in src/blockchain.js: 3000
ExpiredAfter3000(msgTime, currentTime) ==
    /\ ~msgTime.nan
    /\ ~currentTime.nan
    /\ msgTime.val + 3000 <= currentTime.val

\* a variant that compares with < : a challenge of exactly 300 seconds passes
ExpiredStrict(msgTime, currentTime) ==
    /\ ~msgTime.nan
    /\ ~currentTime.nan
    /\ msgTime.val + (5 * 60) < currentTime.val

\* a variant that also turns away a time that has not come yet
ExpiredOrFuture(msgTime, currentTime) ==
    /\ ~msgTime.nan
    /\ ~currentTime.nan
    /\ \/ msgTime.val + (5 * 60) <= currentTime.val
       \/ msgTime.val > currentTime.val

\* (msgTime + (5 * 60)) <= currentTime; a comparison with NaN is false
Expired(msgTime, currentTime) ==
    /\ ~msgTime.nan
    /\ ~currentTime.nan
    /\ msgTime.val + (5 * 60) <= currentTime.val

\* bitcoinMessage.verify(message, address, signature) of the library: true
\* for the address's signature of the message, false for another one, a
\* throw for bytes that are no signature
Verify(message, address, signature) ==
    IF signature.kind = "garbage" THEN "throws"
    ELSE IF signature.signer = address /\ signature.message = message THEN "true"
    ELSE "false"

\* a variant that leaves the loop at the first error
RECURSIVE LinkageErrorsFirstOnly(_, _, _, _)
LinkageErrorsFirstOnly(heap, chain, i, previousHash) ==
    IF i > Len(chain) THEN <<>>
    ELSE IF heap[chain[i]].previousBlockHash # previousHash
         THEN <<[height |-> i - 1, reason |-> "LinkageBroken"]>>
         ELSE LinkageErrorsFirstOnly(heap, chain, i + 1, heap[chain[i]].hash)

\* a variant that never advances previousHash
RECURSIVE LinkageErrorsStale(_, _, _, _)
LinkageErrorsStale(heap, chain, i, previousHash) ==
    IF i > Len(chain) THEN <<>>
    ELSE (IF heap[chain[i]].previousBlockHash # previousHash
          THEN <<[height |-> i - 1, reason |-> "LinkageBroken"]>>
          ELSE <<>>)
         \o LinkageErrorsStale(heap, chain, i + 1, previousHash)

\* the linkage errors validateChain pushes in its loop, scanning from index i
\* with previousHash the hash of the block before
RECURSIVE LinkageErrors(_, _, _, _)
LinkageErrors(heap, chain, i, previousHash) ==
    IF i > Len(chain) THEN <<>>
    ELSE LET currentHash == heap[chain[i]].previousBlockHash
         IN  (IF currentHash # previousHash
              THEN <<[height |-> i - 1, reason |-> "LinkageBroken"]>>
              ELSE <<>>)
             \o LinkageErrors(heap, chain, i + 1, heap[chain[i]].hash)

(***************************************************************************)
(* State.                                                                  *)
(***************************************************************************)
VARIABLES
    clock,       \* new Date().getTime(), in ms
    ticks,       \* clock advances so far
    heap,        \* the Block objects
    chain,       \* Blockchain.chain: references into heap
    height,      \* Blockchain.height
    microtasks,  \* the queue of promise jobs, head first
    calls,       \* per caller slot: the call in progress and its promise
    callerTurn,  \* TRUE while the code running last was the caller's
    pristine,    \* history: each Block object as it was when it was appended
    admitted     \* history: per chain index, the owner and star submitted

vars == <<clock, ticks, heap, chain, height, microtasks, calls, callerTurn,
          pristine, admitted>>

Ledger == [heap |-> heap, chain |-> chain, height |-> height]

Addresses == {<<"a">>, <<"b">>}

Stars == {<<"s1">>, <<"s2">>}

\* seconds between the issue of a challenge and its submission
ChallengeAges == {0, 299, 300}

Signature(signer, message) == [kind |-> "sig", signer |-> signer, message |-> message]

Garbage == [kind |-> "garbage", signer |-> <<>>, message |-> <<>>]

Signatures(message) == {Signature(a, message) : a \in Addresses} \cup {Garbage}

NoSignature == [kind |-> "none", signer |-> <<>>, message |-> <<>>]

NoCall ==
    [op |-> "none", pc |-> "idle", status |-> "pending", error |-> "",
     delivered |-> FALSE, block |-> 0,
     address |-> <<>>, star |-> <<>>, signature |-> NoSignature,
     msgTime |-> NaN, currentTime |-> NaN,
     verified |-> "notcalled", appended |-> 0, added |-> "none",
     target |-> 0, valid |-> FALSE,
     errorLog |-> <<>>, changed |-> {},
     stars |-> <<>>, expected |-> <<>>,
     data |-> <<>>, result |-> 0, heightBefore |-> -1]

Job(kind, c, hops, data) == [kind |-> kind, call |-> c, hops |-> hops, data |-> data]

Deliver(c) == Job("deliver", c, 0, <<>>)

\* a promise settles once: a later resolve or reject changes nothing
Settle(rec, status, error, block) ==
    IF rec.status = "pending"
    THEN [rec EXCEPT !.status = status, !.error = error, !.block = block]
    ELSE rec

\* submit calls that have not appended their block yet
PendingAppends == Cardinality({c \in DOMAIN calls : calls[c].pc = "awaitVerify"})

\* the caller can make a call: its own code is running (the script, or a
\* continuation of it), or the queue is drained and a new task starts
CanCall(c) ==
    /\ callerTurn \/ microtasks = <<>>
    /\ calls[c].op = "none"

Init ==
    LET L == InitializeChain(EmptyLedger, StartClock)
    IN  /\ clock = StartClock
        /\ ticks = 0
        /\ heap = L.heap
        /\ chain = L.chain
        /\ height = L.height
        /\ microtasks = <<>>
        /\ calls = [c \in 1..MaxConcurrent |-> NoCall]
        /\ callerTurn = TRUE
        /\ pristine = L.heap
        /\ admitted = <<[genesis |-> TRUE, owner |-> <<>>, star |-> <<>>]>>

Tick ==
    /\ ticks < MaxTicks
    /\ clock' = clock + TickMs
    /\ ticks' = ticks + 1
    /\ UNCHANGED <<heap, chain, height, microtasks, calls, callerTurn, pristine, admitted>>

(***************************************************************************)
(* submitStar(address, message, signature, star).                          *)
(***************************************************************************)

\* _addBlock(block) with a Block object made just before the call
AddCreated(L, block, ms) ==
    AddBlock([L EXCEPT !.heap = Append(L.heap, block)], Len(L.heap) + 1, ms)

\* new Block({owner, star}) and _addBlock(block), at lines 557-558
CreateAndAdd(L, address, star, ms) ==
    AddCreated(L, NewBlock(StarData(address, star)), ms)

\* the call: the promise executor runs to its first await
SubmitStar(c, address, message, signature, star) ==
    LET msgTime == ParseIntAt(Split(message, ":"), 2)
        currentTime == ParseInt(SecondsString(clock))
        rec == [NoCall EXCEPT !.op = "submitStar", !.address = address, !.star = star,
                              !.signature = signature,
                              !.msgTime = msgTime, !.currentTime = currentTime]
    IN  /\ CanCall(c)
        /\ Len(chain) + PendingAppends < MaxChain
        /\ callerTurn' = TRUE
        /\ UNCHANGED <<clock, ticks>>
        /\ IF Expired(msgTime, currentTime)
           THEN /\ calls' = [calls EXCEPT ![c] =
                        [Settle(rec, "rejected", "Date expired.", 0) EXCEPT !.pc = "done"]]
                /\ microtasks' = Append(microtasks, Deliver(c))
                /\ UNCHANGED <<heap, chain, height, pristine, admitted>>
           ELSE LET v == Verify(message, address, signature)
                IN  IF v = "throws"
                    THEN \* the catch rejects and the executor goes on to add the block
                         LET L == CreateAndAdd(Ledger, address, star, clock)
                             r == Len(L.heap)
                         IN  /\ calls' = [calls EXCEPT ![c] =
                                    [Settle(rec, "rejected", "Invalid signature.", 0)
                                        EXCEPT !.pc = "awaitAdd", !.verified = v,
                                               !.appended = r, !.added = L.status,
                                               !.heightBefore = height]]
                             /\ microtasks' = microtasks \o <<Job("afterAdd", c, 2, <<>>), Deliver(c)>>
                             /\ heap' = L.heap
                             /\ chain' = L.chain
                             /\ height' = L.height
                             /\ pristine' = Append(pristine, L.heap[r])
                             /\ admitted' = Append(admitted,
                                    [genesis |-> FALSE, owner |-> address, star |-> star])
                    ELSE /\ calls' = [calls EXCEPT ![c] =
                                [rec EXCEPT !.pc = "awaitVerify", !.verified = v]]
                         /\ microtasks' = Append(microtasks, Job("afterVerify", c, 0, <<>>))
                         /\ UNCHANGED <<heap, chain, height, pristine, admitted>>

\* the continuation of `await bitcoinMessage.verify(...)`: lines 556-558
SubmitAfterVerify ==
    /\ microtasks # <<>>
    /\ Head(microtasks).kind = "afterVerify"
    /\ \E block \in {NewBlock(StarData(calls[Head(microtasks).call].address,
                                       calls[Head(microtasks).call].star))} :
       \E L \in {AddCreated(Ledger, block, clock)} :
       LET c == Head(microtasks).call
           r == Len(L.heap)
       IN  /\ calls' = [calls EXCEPT ![c].pc = "awaitAdd", ![c].appended = r,
                                     ![c].added = L.status,
                                     ![c].heightBefore = height]
           /\ microtasks' = Append(Tail(microtasks), Job("afterAdd", c, 2, <<>>))
           /\ heap' = L.heap
           /\ chain' = L.chain
           /\ height' = L.height
           /\ pristine' = Append(pristine, L.heap[r])
           /\ admitted' = Append(admitted,
                  [genesis |-> FALSE, owner |-> calls[c].address, star |-> calls[c].star])
    /\ callerTurn' = FALSE
    /\ UNCHANGED <<clock, ticks>>

\* the promise of the async _addBlock adopts the promise it returned: two
\* jobs pass before the await of line 558 is resumed by a third
SubmitAwaitAdd ==
    /\ microtasks # <<>>
    /\ Head(microtasks).kind = "afterAdd"
    /\ Head(microtasks).hops > 0
    /\ microtasks' = Append(Tail(microtasks),
           [Head(microtasks) EXCEPT !.hops = Head(microtasks).hops - 1])
    /\ callerTurn' = FALSE
    /\ UNCHANGED <<clock, ticks, heap, chain, height, calls, pristine, admitted>>

\* a variant whose continuation never calls resolve or reject
SubmitAfterAddNoResolve ==
    /\ microtasks # <<>>
    /\ Head(microtasks).kind = "afterAdd"
    /\ Head(microtasks).hops = 0
    /\ LET c == Head(microtasks).call
       IN  calls' = [calls EXCEPT ![c] =
               IF calls[c].delivered THEN NoCall ELSE [calls[c] EXCEPT !.pc = "done"]]
    /\ microtasks' = Tail(microtasks)
    /\ callerTurn' = FALSE
    /\ UNCHANGED <<clock, ticks, heap, chain, height, pristine, admitted>>

\* the continuation of `await self._addBlock(block)`: lines 559-561
SubmitAfterAdd ==
    /\ microtasks # <<>>
    /\ Head(microtasks).kind = "afterAdd"
    /\ Head(microtasks).hops = 0
    /\ LET c == Head(microtasks).call
           rec == calls[c]
           settled == IF rec.added = "resolved"
                      THEN Settle(rec, "resolved", "", rec.appended)
                      ELSE Settle(rec, "rejected", "Could not add the star.", 0)
       IN  /\ calls' = [calls EXCEPT ![c] =
                  IF rec.delivered THEN NoCall ELSE [settled EXCEPT !.pc = "done"]]
           /\ microtasks' = IF rec.status = "pending"
                            THEN Append(Tail(microtasks), Deliver(c))
                            ELSE Tail(microtasks)
    /\ callerTurn' = FALSE
    /\ UNCHANGED <<clock, ticks, heap, chain, height, pristine, admitted>>

\* the caller's continuation runs: it reads what its promise settled with,
\* as the objects stand now.  The slot is free once the call has nothing
\* left to run.
CallerContinues ==
    /\ microtasks # <<>>
    /\ Head(microtasks).kind = "deliver"
    /\ LET c == Head(microtasks).call
       IN  calls' = [calls EXCEPT ![c] =
               IF calls[c].pc = "done" THEN NoCall
               ELSE [calls[c] EXCEPT !.delivered = TRUE]]
    /\ microtasks' = Tail(microtasks)
    /\ callerTurn' = TRUE
    /\ UNCHANGED <<clock, ticks, heap, chain, height, pristine, admitted>>

(***************************************************************************)
(* Block.validate() on the block at a height, validateChain() and          *)
(* getStarsByWalletAddress(address).                                       *)
(***************************************************************************)

BlockFields == {"hash", "height", "body", "time", "previousBlockHash"}

\* history: the fields of the block at height k that are no longer what was
\* appended
ChangedFields(k) ==
    {<<k, f>> : f \in {g \in BlockFields : heap[chain[k + 1]][g] # pristine[chain[k + 1]][g]}}

ValidateBlock(c, k) ==
    LET r == chain[k + 1]
        v == Validate(heap[r])
        rec == [NoCall EXCEPT !.op = "validate", !.target = k, !.pc = "done",
                              !.valid = v.value,
                              !.changed = ChangedFields(k)]
    IN  /\ CanCall(c)
        /\ k + 1 \in 1..Len(chain)
        /\ heap' = [heap EXCEPT ![r] = v.block]
        /\ calls' = [calls EXCEPT ![c] = Settle(rec, v.status, "", 0)]
        /\ microtasks' = Append(microtasks, Deliver(c))
        /\ callerTurn' = TRUE
        /\ UNCHANGED <<clock, ticks, chain, height, pristine, admitted>>

\* the heap after validate() ran on every block of the chain, from index i
RECURSIVE ValidateAll(_, _, _)
ValidateAll(h, ch, i) ==
    IF i > Len(ch) THEN h
    ELSE ValidateAll([h EXCEPT ![ch[i]] = Validate(h[ch[i]]).block], ch, i + 1)

\* the errors pushed by the catch callbacks of line 657: one for each
\* validate() promise that rejected, all reading the loop's `var i` after
\* the loop has ended
HashErrors(h, ch) ==
    LET rejected == {i \in 1..Len(ch) : Validate(h[ch[i]]).status = "rejected"}
    IN  [j \in 1..Cardinality(rejected) |->
            [height |-> Len(ch), reason |-> "HashMismatch"]]

\* the array validateChain resolves with, as its caller reads it
ErrorLog(h, ch) == LinkageErrors(h, ch, 1, Null) \o HashErrors(h, ch)

ValidateChain(c) ==
    LET rec == [NoCall EXCEPT !.op = "validateChain", !.pc = "done",
                              !.errorLog = ErrorLog(heap, chain),
                              !.changed =
                                  UNION {ChangedFields(k) : k \in 0..(Len(chain) - 1)}]
    IN  /\ CanCall(c)
        /\ heap' = ValidateAll(heap, chain, 1)
        /\ calls' = [calls EXCEPT ![c] = Settle(rec, "resolved", "", 0)]
        /\ microtasks' = Append(microtasks, Deliver(c))
        /\ callerTurn' = TRUE
        /\ UNCHANGED <<clock, ticks, chain, height, pristine, admitted>>

\* the caller calls getBData() on the block stored at height k; a throw of
\* JSON.parse reaches the caller at once, as an exception of the call
GetBlockData(c, k) ==
    LET d == GetBData(heap[chain[k + 1]])
        rec == [NoCall EXCEPT !.op = "getBData", !.target = k, !.pc = "done",
                              !.data = d.value]
    IN  /\ CanCall(c)
        /\ k + 1 \in 1..Len(chain)
        /\ calls' = [calls EXCEPT ![c] =
               IF d.thrown THEN Settle(rec, "thrown", "SyntaxError", 0)
               ELSE IF d.status = "rejected"
               THEN Settle(rec, "rejected", "Cannot return Genesis Block", 0)
               ELSE Settle(rec, "resolved", "", 0)]
        /\ microtasks' = Append(microtasks, Deliver(c))
        /\ callerTurn' = TRUE
        /\ UNCHANGED <<clock, ticks, heap, chain, height, pristine, admitted>>

\* getChainHeight(): the promise resolves with self.height
GetChainHeight(c) ==
    /\ CanCall(c)
    /\ calls' = [calls EXCEPT ![c] =
           Settle([NoCall EXCEPT !.op = "getChainHeight", !.pc = "done",
                                 !.result = height],
                  "resolved", "", 0)]
    /\ microtasks' = Append(microtasks, Deliver(c))
    /\ callerTurn' = TRUE
    /\ UNCHANGED <<clock, ticks, heap, chain, height, pristine, admitted>>

\* the loop of getStarsByWalletAddress from index i (the code's i) on: the
\* then-callbacks it queues until a getBData() throws
RECURSIVE StarsLoop(_, _, _, _, _)
StarsLoop(h, ch, top, i, c) ==
    IF i > top THEN [thrown |-> FALSE, jobs |-> <<>>]
    ELSE LET d == GetBData(h[ch[i + 1]])
         IN  IF d.thrown THEN [thrown |-> TRUE, jobs |-> <<>>]
             ELSE LET rest == StarsLoop(h, ch, top, i + 1, c)
                  IN  [thrown |-> rest.thrown,
                       jobs |-> (IF d.status = "resolved"
                                 THEN <<Job("starsThen", c, 0, d.value)>>
                                 ELSE <<>>) \o rest.jobs]

\* the first index the loop of line 620 reads
FirstStarIndex == 1

\* history: the stars admitted for an owner, in chain order
RECURSIVE AdmittedStars(_, _)
AdmittedStars(log, address) ==
    IF log = <<>> THEN <<>>
    ELSE (IF ~Head(log).genesis /\ Head(log).owner = address
          THEN <<[defined |-> TRUE, val |-> Head(log).star]>>
          ELSE <<>>) \o AdmittedStars(Tail(log), address)

GetStarsByWalletAddress(c, address) ==
    LET loop == StarsLoop(heap, chain, height, FirstStarIndex, c)
        rec == [NoCall EXCEPT !.op = "getStars", !.pc = "done", !.address = address,
                              !.expected = AdmittedStars(admitted, address)]
    IN  /\ CanCall(c)
        /\ calls' = [calls EXCEPT ![c] =
               IF loop.thrown THEN Settle(rec, "rejected", "SyntaxError", 0)
               ELSE Settle(rec, "resolved", "", 0)]
        /\ microtasks' = microtasks \o loop.jobs \o <<Deliver(c)>>
        /\ callerTurn' = TRUE
        /\ UNCHANGED <<clock, ticks, heap, chain, height, pristine, admitted>>

\* a variant that assigns instead of comparing: pki = address is truthy
OwnerMatchesAssign(bi, address) == address # <<>>

\* pki == address, with pki = bi.owner possibly undefined
OwnerMatches(bi, address) == Prop(bi, <<"owner">>) = [defined |-> TRUE, val |-> address]

\* the then-callback of line 621 for one block's data bi
StarsThen ==
    /\ microtasks # <<>>
    /\ Head(microtasks).kind = "starsThen"
    /\ LET c == Head(microtasks).call
           bi == Head(microtasks).data
       IN  calls' = [calls EXCEPT ![c].stars =
               IF OwnerMatches(bi, calls[c].address)
               THEN Append(calls[c].stars, Prop(bi, <<"star">>))
               ELSE calls[c].stars]
    /\ microtasks' = Tail(microtasks)
    /\ callerTurn' = FALSE
    /\ UNCHANGED <<clock, ticks, heap, chain, height, pristine, admitted>>

(***************************************************************************)
(* Code outside the ledger that holds a reference to a stored Block object *)
(* assigns one of its fields other than hash.                              *)
(***************************************************************************)
MaxTampered == 1       \* stored objects changed from outside

TamperBodies == {BufferHex(JSONstringifyData(StarData(a, <<"s2">>))) : a \in Addresses}

TamperTimes ==
    {JSString(SecondsString(StartClock)), JSString(SecondsString(StartClock + 1000))}

TamperHashes == {Null} \cup {heap[chain[i]].hash : i \in 1..Len(chain)}

Tamper(r) ==
    /\ callerTurn \/ microtasks = <<>>
    /\ r \in 1..Len(heap)
    /\ heap[r] = pristine[r]
    /\ Cardinality({q \in 1..Len(heap) : heap[q] # pristine[q]}) < MaxTampered
    /\ \/ \E v \in TamperBodies \ {heap[r].body} : heap' = [heap EXCEPT ![r].body = v]
       \/ \E v \in {0, heap[r].height + 1} \ {heap[r].height} :
              heap' = [heap EXCEPT ![r].height = v]
       \/ \E v \in TamperTimes \ {heap[r].time} : heap' = [heap EXCEPT ![r].time = v]
       \/ \E v \in TamperHashes \ {heap[r].previousBlockHash} :
              heap' = [heap EXCEPT ![r].previousBlockHash = v]
    /\ callerTurn' = TRUE
    /\ UNCHANGED <<clock, ticks, chain, height, microtasks, calls, pristine, admitted>>

(***************************************************************************)
(* Specifications.                                                         *)
(***************************************************************************)
\* the signatures a caller of the given kinds may pass for a message
SignaturesOf(kinds, address, message) ==
    {sg \in Signatures(message) :
        \/ "own" \in kinds /\ sg = Signature(address, message)
        \/ "other" \in kinds /\ sg.kind = "sig" /\ sg.signer # address
        \/ "garbage" \in kinds /\ sg = Garbage}

Submit(callers, stars, ages, kinds) ==
    \E c \in callers, address \in Addresses, age \in ages, star \in stars :
        \E signature \in SignaturesOf(kinds, address,
                                      ChallengeMessage(address, clock - (age * 1000))) :
            SubmitStar(c, address, ChallengeMessage(address, clock - (age * 1000)),
                       signature, star)

AnySignature == {"own", "other", "garbage"}

SubmitSteps == SubmitAfterVerify \/ SubmitAwaitAdd \/ SubmitAfterAdd \/ CallerContinues

Reads(callers) ==
    \/ \E c \in callers, k \in 0..(MaxChain - 1) : ValidateBlock(c, k)
    \/ \E c \in callers : ValidateChain(c)
    \/ \E c \in callers, address \in Addresses : GetStarsByWalletAddress(c, address)
    \/ StarsThen
    \/ \E c \in callers, k \in 0..(MaxChain - 1) : GetBlockData(c, k)
    \/ \E c \in callers : GetChainHeight(c)

\* one caller, one call at a time, any input
Next ==
    \/ Tick
    \/ Submit({1}, Stars, ChallengeAges, AnySignature)
    \/ SubmitSteps
    \/ Reads({1})

Spec == Init /\ [][Next]_vars


ValidSignature == {"own"}

\* the ledger with outside code changing stored blocks; submissions are
\* fresh and signed
NextTamper ==
    \/ Submit({1}, {<<"s1">>}, {0}, ValidSignature)
    \/ SubmitSteps
    \/ \E c \in {1}, k \in 0..(MaxChain - 1) : ValidateBlock(c, k)
    \/ \E c \in {1} : ValidateChain(c)
    \/ \E r \in 1..MaxChain : Tamper(r)

SpecTamper == Init /\ [][NextTamper]_vars

\* callers that keep several submissions in flight, each with a challenge
\* younger than five minutes and signed
NextConcurrent ==
    \/ Submit(1..MaxConcurrent, Stars, {0, 299}, ValidSignature)
    \/ SubmitSteps

SpecConcurrent == Init /\ [][NextConcurrent]_vars

(***************************************************************************)
(* _addBlock(block) called directly, getBlockByHeight, getBlockByHash, and *)
(* what the caller's continuation does with the Block object it received.  *)
(***************************************************************************)

\* the promise of the async _addBlock adopts the promise it returned: two
\* jobs pass before the caller's continuation is queued
AddBlockAdopts ==
    /\ microtasks # <<>>
    /\ Head(microtasks).kind = "adopt"
    /\ microtasks' = Append(Tail(microtasks),
           IF Head(microtasks).hops > 1
           THEN [Head(microtasks) EXCEPT !.hops = Head(microtasks).hops - 1]
           ELSE Deliver(Head(microtasks).call))
    /\ callerTurn' = FALSE
    /\ UNCHANGED <<clock, ticks, heap, chain, height, calls, pristine, admitted>>

\* the record of a call _addBlock(r) that left the ledger L
AddBlockRecord(L, r) ==
    LET rec == [NoCall EXCEPT !.op = "addBlock", !.pc = "done", !.appended = r,
                              !.heightBefore = height]
    IN  IF L.status = "resolved" THEN Settle(rec, "resolved", "", r)
        ELSE Settle(rec, "rejected", "Could not add the block", 0)

\* _addBlock(block) with a Block the caller has just made from {owner, star},
\* its hash field being null or set by the caller beforehand
AddBlockNew(c, address, star, presetHash) ==
    LET made == [NewBlock(StarData(address, star)) EXCEPT !.hash = presetHash]
        created == [Ledger EXCEPT !.heap = Append(heap, made)]
        r == Len(created.heap)
        L == AddBlock(created, r, clock)
    IN  /\ CanCall(c)
        /\ Len(chain) < MaxChain
        /\ calls' = [calls EXCEPT ![c] = AddBlockRecord(L, r)]
        /\ microtasks' = Append(microtasks, Job("adopt", c, 2, <<>>))
        /\ heap' = L.heap
        /\ chain' = L.chain
        /\ height' = L.height
        /\ pristine' = Append(pristine, L.heap[r])
        /\ admitted' = Append(admitted,
               [genesis |-> FALSE, owner |-> address, star |-> star])
        /\ callerTurn' = TRUE
        /\ UNCHANGED <<clock, ticks>>

\* the caller's continuation calls _addBlock with the Block it received
CallerAppendsAgain ==
    /\ microtasks # <<>>
    /\ Head(microtasks).kind = "deliver"
    /\ LET c == Head(microtasks).call
           r == calls[c].block
           L == AddBlock(Ledger, r, clock)
           first == CHOOSE i \in 1..Len(chain) :
                        chain[i] = r /\ \A j \in 1..(i - 1) : chain[j] # r
       IN  /\ calls[c].pc = "done"
           /\ calls[c].status = "resolved"
           /\ r # 0
           /\ Len(chain) < MaxChain
           /\ calls' = [calls EXCEPT ![c] = AddBlockRecord(L, r)]
           /\ microtasks' = Append(Tail(microtasks), Job("adopt", c, 2, <<>>))
           /\ heap' = L.heap
           /\ chain' = L.chain
           /\ height' = L.height
           /\ admitted' = Append(admitted, admitted[first])
    /\ callerTurn' = TRUE
    /\ UNCHANGED <<clock, ticks, pristine>>

\* a variant that searches from index 1 on
FirstBlockSkipsGenesis(field, value) ==
    IF \A i \in 2..Len(chain) : heap[chain[i]][field] # value THEN 0
    ELSE chain[CHOOSE i \in 2..Len(chain) :
                   /\ heap[chain[i]][field] = value
                   /\ \A j \in 2..(i - 1) : heap[chain[j]][field] # value]

\* self.chain.filter(p => p[field] === value)[0]: the first stored object
\* with that field value, 0 (null) when there is none
FirstBlock(field, value) ==
    IF \A i \in 1..Len(chain) : heap[chain[i]][field] # value THEN 0
    ELSE chain[CHOOSE i \in 1..Len(chain) :
                   /\ heap[chain[i]][field] = value
                   /\ \A j \in 1..(i - 1) : heap[chain[j]][field] # value]

GetBlockByHeight(c, h) ==
    LET rec == [NoCall EXCEPT !.op = "getBlockByHeight", !.pc = "done", !.target = h]
    IN  /\ CanCall(c)
        /\ calls' = [calls EXCEPT ![c] =
               Settle(rec, "resolved", "", FirstBlock("height", h))]
        /\ microtasks' = Append(microtasks, Deliver(c))
        /\ callerTurn' = TRUE
        /\ UNCHANGED <<clock, ticks, heap, chain, height, pristine, admitted>>

GetBlockByHash(c, hash) ==
    LET rec == [NoCall EXCEPT !.op = "getBlockByHash", !.pc = "done", !.data = hash]
    IN  /\ CanCall(c)
        /\ calls' = [calls EXCEPT ![c] =
               Settle(rec, "resolved", "", FirstBlock("hash", hash))]
        /\ microtasks' = Append(microtasks, Deliver(c))
        /\ callerTurn' = TRUE
        /\ UNCHANGED <<clock, ticks, heap, chain, height, pristine, admitted>>

\* hashes a caller may ask for: those of the stored blocks and one of none
KnownHashes == {heap[chain[i]].hash : i \in 1..Len(chain)} \cup {SHA256(<<>>)}

\* a body that is not the text of an object
UndecodableBody == BufferHex(<<"{">>)

\* the caller's continuation assigns a field of the Block it received
CallerChangesBlock ==
    /\ microtasks # <<>>
    /\ Head(microtasks).kind = "deliver"
    /\ LET c == Head(microtasks).call
           r == calls[c].block
       IN  /\ calls[c].pc = "done"
           /\ calls[c].status = "resolved"
           /\ r # 0
           /\ heap[r] = pristine[r]
           /\ Cardinality({q \in 1..Len(heap) : heap[q] # pristine[q]}) < MaxTampered
           /\ \/ heap' = [heap EXCEPT ![r].body = UndecodableBody]
              \/ heap' = [heap EXCEPT ![r].height = heap[r].height + 1]
           /\ calls' = [calls EXCEPT ![c] = NoCall]
    /\ microtasks' = Tail(microtasks)
    /\ callerTurn' = TRUE
    /\ UNCHANGED <<clock, ticks, chain, height, pristine, admitted>>

\* requestMessageOwnershipVerification(address): the promise resolves with
\* the message
RequestMessageOwnershipVerification(c, address) ==
    LET rec == [NoCall EXCEPT !.op = "requestMessage", !.pc = "done",
                              !.address = address,
                              !.data = ChallengeMessage(address, clock)]
    IN  /\ CanCall(c)
        /\ calls' = [calls EXCEPT ![c] = Settle(rec, "resolved", "", 0)]
        /\ microtasks' = Append(microtasks, Deliver(c))
        /\ callerTurn' = TRUE
        /\ UNCHANGED <<clock, ticks, heap, chain, height, pristine, admitted>>

\* initializeChain() called on the ledger again.  The call returns at once;
\* the caller's code after it is taken as its continuation.
InitializeChainCall(c) ==
    LET L == InitializeChain(Ledger, clock)
        made == Len(L.heap) - Len(heap)
        rec == [NoCall EXCEPT !.op = "initializeChain", !.pc = "done",
                              !.heightBefore = height]
    IN  /\ CanCall(c)
        /\ heap' = L.heap
        /\ chain' = L.chain
        /\ height' = L.height
        /\ pristine' = pristine \o SubSeq(L.heap, Len(heap) + 1, Len(L.heap))
        /\ admitted' = admitted \o
               [i \in 1..made |-> [genesis |-> TRUE, owner |-> <<>>, star |-> <<>>]]
        /\ calls' = [calls EXCEPT ![c] = Settle(rec, "resolved", "", 0)]
        /\ microtasks' = Append(microtasks, Deliver(c))
        /\ callerTurn' = TRUE
        /\ UNCHANGED <<clock, ticks>>

\* heights a caller may ask for, in and out of range
HeightsAsked == -1..MaxChain

\* submissions, lookups by height and by hash, requests for a message, and
\* calls of initializeChain
NextLookup ==
    \/ Tick
    \/ Submit({1}, {<<"s1">>}, {0}, AnySignature)
    \/ SubmitSteps
    \/ \E c \in {1}, h \in HeightsAsked : GetBlockByHeight(c, h)
    \/ \E c \in {1}, hash \in KnownHashes : GetBlockByHash(c, hash)
    \/ \E c \in {1}, address \in Addresses : RequestMessageOwnershipVerification(c, address)
    \/ \E c \in {1} : InitializeChainCall(c)

SpecLookup == Init /\ [][NextLookup]_vars

\* addresses that contain the separator of the message
ColonAddresses == {<<"a", ":", "b">>, <<"1", ":", "2">>}

\* the caller submits, at once and signed by the address, the message that
\* requestMessageOwnershipVerification(address) gives at this clock
SubmitChallenge(c, address) ==
    SubmitStar(c, address, ChallengeMessage(address, clock),
               Signature(address, ChallengeMessage(address, clock)), <<"s1">>)

\* requests for a message and submissions of it, for addresses with and
\* without the separator
NextChallenge ==
    \/ Tick
    \/ \E c \in {1}, address \in Addresses \cup ColonAddresses :
           RequestMessageOwnershipVerification(c, address)
    \/ \E c \in {1}, address \in Addresses \cup ColonAddresses :
           SubmitChallenge(c, address)
    \/ SubmitSteps

SpecChallenge == Init /\ [][NextChallenge]_vars

\* one message, issued for the address at construction, and its signature
IssuedMessage == ChallengeMessage(<<"a">>, StartClock)

\* a message issued five minutes before construction
OldMessage == ChallengeMessage(<<"a">>, StartClock - ((5 * 60) * 1000))

\* a variant of a ledger that takes a message once: a second submission of
\* it is rejected
ResubmitIssued(c, star) ==
    IF Len(chain) + PendingAppends = 1
    THEN SubmitStar(c, <<"a">>, IssuedMessage, Signature(<<"a">>, IssuedMessage), star)
    ELSE /\ CanCall(c)
         /\ calls' = [calls EXCEPT ![c] =
                [Settle([NoCall EXCEPT !.op = "submitStar", !.address = <<"a">>,
                                       !.star = star,
                                       !.signature = Signature(<<"a">>, IssuedMessage),
                                       !.msgTime = ParseIntAt(Split(IssuedMessage, ":"), 2),
                                       !.currentTime = ParseInt(SecondsString(clock))],
                        "rejected", "Date expired.", 0) EXCEPT !.pc = "done"]]
         /\ microtasks' = Append(microtasks, Deliver(c))
         /\ callerTurn' = TRUE
         /\ UNCHANGED <<clock, ticks, heap, chain, height, pristine, admitted>>

\* the test of lines 745-757: submitStar with the same address, message and
\* signature again, for one star or another
SubmitIssued(c, star) ==
    SubmitStar(c, <<"a">>, IssuedMessage, Signature(<<"a">>, IssuedMessage), star)

\* submissions of the issued message, again and again and several in
\* flight, and of the old one, while the clock advances
NextReuse ==
    \/ Tick
    \/ \E c \in 1..MaxConcurrent, star \in Stars : SubmitIssued(c, star)
    \/ \E c \in 1..MaxConcurrent :
           SubmitStar(c, <<"a">>, OldMessage, Signature(<<"a">>, OldMessage), <<"s1">>)
    \/ SubmitSteps

SpecReuse == Init /\ [][NextReuse]_vars

\* seconds between the issue of a challenge and its submission, for
\* challenges whose time lies ahead of the clock
FutureAges == {-1, -300}

\* submissions of challenges with a time in the future, next to fresh and
\* expired ones
NextFuture ==
    \/ Tick
    \/ Submit({1}, {<<"s1">>}, FutureAges \cup {0, 300}, AnySignature)
    \/ SubmitSteps

SpecFuture == Init /\ [][NextFuture]_vars

\* submissions in flight together with reads by other callers
NextInterleaved ==
    \/ Submit(1..MaxConcurrent, {<<"s1">>}, {0}, ValidSignature)
    \/ SubmitSteps
    \/ \E c \in 1..MaxConcurrent, k \in 0..(MaxChain - 1) : ValidateBlock(c, k)
    \/ \E c \in 1..MaxConcurrent : ValidateChain(c)
    \/ \E c \in 1..MaxConcurrent, h \in 0..(MaxChain - 1) : GetBlockByHeight(c, h)

SpecInterleaved == Init /\ [][NextInterleaved]_vars

\* hash fields a Block may enter _addBlock with
PresetHashes == {Null, SHA256(<<>>)}

\* direct appends, of new Blocks and of Blocks received, and reads
NextAppend ==
    \/ \E c \in {1}, star \in Stars, presetHash \in PresetHashes :
           AddBlockNew(c, <<"a">>, star, presetHash)
    \/ AddBlockAdopts
    \/ CallerContinues
    \/ CallerAppendsAgain
    \/ \E c \in {1}, h \in 0..(MaxChain - 1) : GetBlockByHeight(c, h)
    \/ \E c \in {1}, hash \in KnownHashes : GetBlockByHash(c, hash)
    \/ \E c \in {1}, k \in 0..(MaxChain - 1) : ValidateBlock(c, k)

SpecAppend == Init /\ [][NextAppend]_vars

\* appends of every kind on ledgers of every kind: direct ones of new Blocks
\* and of Blocks received, those of submissions with any signature, and
\* stored blocks changed from outside in between
NextEveryAppend ==
    \/ \E c \in {1}, presetHash \in PresetHashes :
           AddBlockNew(c, <<"a">>, <<"s1">>, presetHash)
    \/ AddBlockAdopts
    \/ CallerAppendsAgain
    \/ Submit({1}, {<<"s1">>}, {0, 300}, AnySignature)
    \/ SubmitSteps
    \/ \E r \in 1..MaxChain : Tamper(r)

SpecEveryAppend == Init /\ [][NextEveryAppend]_vars

\* signed submissions and reads by a caller that changes the Blocks it
\* receives
NextAlias ==
    \/ Submit({1}, Stars, {0}, ValidSignature)
    \/ SubmitSteps
    \/ CallerChangesBlock
    \/ \E c \in {1}, h \in 0..(MaxChain - 1) : GetBlockByHeight(c, h)
    \/ \E c \in {1}, hash \in KnownHashes : GetBlockByHash(c, hash)
    \/ \E c \in {1}, address \in Addresses : GetStarsByWalletAddress(c, address)
    \/ StarsThen

SpecAlias == Init /\ [][NextAlias]_vars

(***************************************************************************)
(* Code outside the ledger assigns the hash or the previousBlockHash of    *)
(* stored Block objects.                                                   *)
(***************************************************************************)
MaxBroken == 2         \* stored objects whose hashes were changed

TamperLink(r) ==
    /\ callerTurn \/ microtasks = <<>>
    /\ r \in 1..Len(heap)
    /\ heap[r] = pristine[r]
    /\ Cardinality({q \in 1..Len(heap) : heap[q] # pristine[q]}) < MaxBroken
    /\ \/ heap' = [heap EXCEPT ![r].hash = SHA256(<<>>)]
       \/ \E v \in {Null, SHA256(<<>>)} \ {heap[r].previousBlockHash} :
              heap' = [heap EXCEPT ![r].previousBlockHash = v]
    /\ callerTurn' = TRUE
    /\ UNCHANGED <<clock, ticks, chain, height, microtasks, calls, pristine, admitted>>

\* signed submissions, changes of stored hashes, and validateChain
NextLinkage ==
    \/ Submit({1}, {<<"s1">>}, {0}, ValidSignature)
    \/ SubmitSteps
    \/ \E c \in {1} : ValidateChain(c)
    \/ \E r \in 1..MaxChain : TamperLink(r)

SpecLinkage == Init /\ [][NextLinkage]_vars

\* stars as submitStar receives them: plain, with a quotation mark, and
\* with the degree sign of the stars in the repository's tests
PayloadStars == {<<"s1">>, <<Quote, "s">>, <<"8", "deg">>}

\* messages without a second segment, or with one that is no number
MalformedMessages(address) ==
    {address, address \o <<":", "x", ":", "starRegistry">>}

SubmitMalformed(callers, stars, kinds) ==
    \E c \in callers, address \in Addresses, star \in stars :
        \E message \in MalformedMessages(address) :
            \E signature \in SignaturesOf(kinds, address, message) :
                SubmitStar(c, address, message, signature, star)

\* the jobs of the microtask queue; the event loop runs the job at the head
\* of the queue whenever the running code has returned
RunJob == SubmitSteps \/ StarsThen \/ AddBlockAdopts

LiveCallers == {1, 2}

\* every operation of the ledger, called by two callers with any input:
\* fresh and expired challenges, malformed messages, signatures of every kind
NextLive ==
    \/ Submit(LiveCallers, {<<"s1">>}, {0, 300}, AnySignature)
    \/ SubmitMalformed(LiveCallers, {<<"s1">>}, ValidSignature)
    \/ RunJob
    \/ \E c \in LiveCallers : AddBlockNew(c, <<"a">>, <<"s1">>, Null)
    \/ \E c \in LiveCallers : ValidateChain(c)
    \/ \E c \in LiveCallers, address \in Addresses : GetStarsByWalletAddress(c, address)
    \/ \E c \in LiveCallers : GetChainHeight(c)
    \/ \E c \in LiveCallers, h \in {0, MaxChain} : GetBlockByHeight(c, h)
    \/ \E c \in LiveCallers, hash \in KnownHashes : GetBlockByHash(c, hash)
    \/ \E c \in LiveCallers : RequestMessageOwnershipVerification(c, <<"a">>)

\* the event loop does not leave a queued job waiting for ever
SpecLive == Init /\ [][NextLive]_vars /\ WF_vars(RunJob)

\* the data objects Blocks are made from
PayloadDatas == {GenesisData} \cup {StarData(<<"a">>, star) : star \in PayloadStars}

\* _addBlock(new Block(data))
AddBlockWithData(c, data) ==
    LET created == [Ledger EXCEPT !.heap = Append(heap, NewBlock(data))]
        r == Len(created.heap)
        L == AddBlock(created, r, clock)
        owner == Prop(data, <<"owner">>)
        star == Prop(data, <<"star">>)
    IN  /\ CanCall(c)
        /\ Len(chain) < MaxChain
        /\ calls' = [calls EXCEPT ![c] = AddBlockRecord(L, r)]
        /\ microtasks' = Append(microtasks, Job("adopt", c, 2, <<>>))
        /\ heap' = L.heap
        /\ chain' = L.chain
        /\ height' = L.height
        /\ pristine' = Append(pristine, L.heap[r])
        /\ admitted' = Append(admitted,
               [genesis |-> (data = GenesisData),
                owner |-> IF owner.defined THEN owner.val ELSE <<>>,
                star |-> IF star.defined THEN star.val ELSE <<>>])
        /\ callerTurn' = TRUE
        /\ UNCHANGED <<clock, ticks>>

\* Blocks of any data appended, changed by the caller that received them,
\* and getBData on the stored blocks
NextData ==
    \/ \E c \in {1}, data \in PayloadDatas : AddBlockWithData(c, data)
    \/ AddBlockAdopts
    \/ CallerContinues
    \/ CallerChangesBlock
    \/ \E c \in {1}, k \in 0..(MaxChain - 1) : GetBlockData(c, k)

SpecData == Init /\ [][NextData]_vars

\* signed submissions of any star with a fresh or a malformed message, and
\* getBData on the stored blocks
NextPayload ==
    \/ Submit({1}, PayloadStars, {0}, ValidSignature)
    \/ SubmitMalformed({1}, {<<"s1">>}, ValidSignature)
    \/ SubmitSteps
    \/ \E c \in {1}, k \in 0..(MaxChain - 1) : GetBlockData(c, k)

SpecPayload == Init /\ [][NextPayload]_vars

(***************************************************************************)
(* Properties.                                                             *)
(***************************************************************************)
SubmitCalls == {c \in DOMAIN calls : calls[c].op = "submitStar"}

ChainLinked ==
    /\ heap[chain[1]].previousBlockHash = Null
    /\ heap[chain[1]].height = 0
    /\ \A i \in 2..Len(chain) :
           /\ heap[chain[i]].previousBlockHash = heap[chain[i - 1]].hash
           /\ heap[chain[i]].height = i - 1

\* C1: after genesis and any number of submissions, every block at height
\* i >= 1 holds the hash of the block at height i - 1 and has height i, and
\* the genesis block has height 0 and no previous hash.
C1_AppendLinkage == Len(chain) >= 1 /\ ChainLinked

C1_Witness == Len(chain) >= 3 /\ \E c \in SubmitCalls : calls[c].appended = chain[3]

\* C2: submit returns a block only when the signature verification returned
\* true; when it throws or returns false the call fails with
\* InvalidSignature.
C2_OnlyVerifiedAdmitted ==
    \A c \in SubmitCalls :
        /\ calls[c].status = "resolved" => calls[c].verified = "true"
        /\ (calls[c].verified \in {"false", "throws"} /\ calls[c].pc = "done")
               => (calls[c].status = "rejected" /\ calls[c].error = "Invalid signature.")

\* C3: a submit call that ends in an error has appended no block: chain and
\* height are what they were before the call.
C3_RejectedAppendsNothing ==
    \A c \in SubmitCalls : calls[c].status = "rejected" => calls[c].appended = 0

Elapsed(c) == calls[c].currentTime.val - calls[c].msgTime.val

\* C4: a submit is rejected as expired exactly when now - embeddedTime >= 300;
\* with a valid signature and now - embeddedTime = 299 it succeeds with the
\* block it appended.
C4_ExpiryBoundary ==
    \A c \in SubmitCalls :
        ~calls[c].msgTime.nan =>
            /\ (Elapsed(c) >= 300)
                   <=> (calls[c].status = "rejected" /\ calls[c].error = "Date expired.")
            /\ (Elapsed(c) = 299 /\ calls[c].verified = "true" /\ calls[c].pc = "done")
                   => /\ calls[c].status = "resolved"
                      /\ calls[c].block = calls[c].appended
                      /\ calls[c].block \in {chain[i] : i \in 2..Len(chain)}

C4_Witness ==
    \E c \in SubmitCalls :
        /\ Elapsed(c) = 299
        /\ calls[c].verified = "true"
        /\ calls[c].status = "resolved"

Reported(log, k, reason) ==
    \E i \in 1..Len(log) : log[i] = [height |-> k, reason |-> reason]

\* C5: when the body of the stored block at height k was changed and its hash
\* left as it was, validateChain's list has a HashMismatch error for height k.
C5_BodyTamperReported ==
    \A c \in DOMAIN calls :
        calls[c].op = "validateChain" =>
            \A k \in 0..(Len(chain) - 1) :
                (<<k, "body">> \in calls[c].changed /\ <<k, "hash">> \notin calls[c].changed)
                    => Reported(calls[c].errorLog, k, "HashMismatch")

\* C6: on a ledger whose blocks were not changed after they were appended,
\* validateChain resolves with the empty list.
C6_UntamperedChainValid ==
    \A c \in DOMAIN calls :
        calls[c].op = "validateChain" =>
            /\ calls[c].changed = {}
            /\ calls[c].status = "resolved"
            /\ calls[c].errorLog = <<>>

C6_Witness ==
    \E c \in DOMAIN calls : calls[c].op = "validateChain" /\ Len(chain) >= 3

\* C7: validate on a stored block of which a field other than hash was
\* changed resolves with false (it resolves with true while nothing was
\* changed), and it never rejects.
C7_TamperDetected ==
    \A c \in DOMAIN calls :
        calls[c].op = "validate" =>
            /\ calls[c].status = "resolved"
            /\ calls[c].valid <=> (calls[c].changed = {})

C7_Witness ==
    \E c \in DOMAIN calls :
        /\ calls[c].op = "validate"
        /\ calls[c].changed # {}
        /\ ~calls[c].valid

ValidateStep == \E c \in DOMAIN calls, k \in 0..(Len(chain) - 1) : ValidateBlock(c, k)

C10_ConcurrentAppends ==
    /\ ChainLinked
    /\ microtasks = <<>> => \A c \in DOMAIN calls : calls[c] = NoCall
    /\ \A c \in SubmitCalls :
           /\ calls[c].status # "rejected"
           /\ calls[c].status = "resolved" => calls[c].block = calls[c].appended
           /\ calls[c].appended # 0 =>
                  /\ heap[calls[c].appended].height + 1 \in 1..Len(chain)
                  /\ chain[heap[calls[c].appended].height + 1] = calls[c].appended
    /\ \A c, d \in SubmitCalls :
           (c # d /\ calls[c].appended # 0 /\ calls[d].appended # 0)
               => heap[calls[c].appended].height # heap[calls[d].appended].height

C10_Witness ==
    \A c \in 1..MaxConcurrent : calls[c].pc = "awaitAdd" /\ calls[c].appended # 0

\* C11: right after construction the ledger has height 0 and one block; the
\* genesis block has height 0 and no previous hash, and getBData on it
\* rejects, the data of the genesis block not being available.
C11_GenesisInvariant ==
    /\ heap[chain[1]].height = 0
    /\ heap[chain[1]].previousBlockHash = Null
    /\ Len(admitted) = 1 => (height = 0 /\ Len(chain) = 1)
    /\ \A c \in DOMAIN calls :
           (calls[c].op = "getBData" /\ calls[c].target = 0)
               => /\ calls[c].status = "rejected"
                  /\ calls[c].error = "Cannot return Genesis Block"

C11_Witness ==
    /\ Len(chain) = 1
    /\ \E c \in DOMAIN calls :
           calls[c].op = "getBData" /\ calls[c].target = 0 /\ calls[c].status = "rejected"

C19_ExpiryBeforeSignature ==
    \A c \in SubmitCalls :
        (~calls[c].msgTime.nan /\ Elapsed(c) >= 300)
            => /\ calls[c].status = "rejected"
               /\ calls[c].error = "Date expired."
               /\ calls[c].verified = "notcalled"
               /\ calls[c].appended = 0

C19_Witness ==
    \E c \in SubmitCalls :
        /\ Elapsed(c) >= 300
        /\ calls[c].signature.signer # calls[c].address
        /\ calls[c].error = "Date expired."

\* C12: getBData on a block made from a data object resolves with a data
\* object equal to it, also when the star holds a quotation mark or the
\* degree sign.
C12_CodecRoundTrip ==
    \A c \in DOMAIN calls :
        (calls[c].op = "getBData" /\ calls[c].target >= 1)
            => /\ calls[c].status = "resolved"
               /\ calls[c].data = StarData(admitted[calls[c].target + 1].owner,
                                           admitted[calls[c].target + 1].star)

\* the error of the specification that a rejection of submitStar stands for
ErrorKind(error) ==
    IF error = "Date expired." THEN "ChallengeExpired"
    ELSE IF error = "Invalid signature." THEN "InvalidSignature"
    ELSE IF error = "Could not add the star." THEN "AppendFailed"
    ELSE "none"

\* C13: a submit whose message has no second segment, or one that is not a
\* number, fails as malformed and appends no block.
C13_MalformedRejected ==
    \A c \in SubmitCalls :
        calls[c].msgTime.nan
            => /\ calls[c].appended = 0
               /\ calls[c].status # "resolved"
               /\ calls[c].status = "rejected"
                      => ErrorKind(calls[c].error) = "MalformedMessage"
               /\ calls[c].pc = "done" => calls[c].status = "rejected"

\* C18: when the caller of a successful submitStar reads the block it was
\* given, that block is the last of the chain, its height is the height of
\* the ledger before the append plus one, and getBData on it resolves with
\* {owner: address, star: star} for the address and the star submitted.
C18_SubmitReturnsAppended ==
    \A c \in SubmitCalls :
        (calls[c].status = "resolved" /\ microtasks # <<>> /\ Head(microtasks) = Deliver(c))
            => /\ calls[c].block = calls[c].appended
               /\ chain[Len(chain)] = calls[c].block
               /\ heap[calls[c].block].height = calls[c].heightBefore + 1
               /\ GetBData(heap[calls[c].block]) =
                      [thrown |-> FALSE, status |-> "resolved",
                       value |-> StarData(calls[c].address, calls[c].star)]

\* the stars admitted for an owner in the blocks from chain index i on whose
\* body can be decoded
RECURSIVE StarsOfDecodable(_, _)
StarsOfDecodable(i, address) ==
    IF i > Len(chain) THEN <<>>
    ELSE (IF ~GetBData(heap[chain[i]]).thrown /\ admitted[i].owner = address
          THEN <<[defined |-> TRUE, val |-> admitted[i].star]>>
          ELSE <<>>) \o StarsOfDecodable(i + 1, address)

\* C14: getStarsByWalletAddress resolves also when a stored block at height
\* 1 or above has a body that cannot be decoded; the array the caller reads
\* holds the owner's stars of all the other blocks.
C14_UndecodableSkipped ==
    \A c \in DOMAIN calls :
        (calls[c].op = "getStars" /\ microtasks # <<>> /\ Head(microtasks) = Deliver(c))
            => /\ calls[c].status = "resolved"
               /\ calls[c].stars = StarsOfDecodable(2, calls[c].address)

\* C15: a caller assigning a field of the Block it was given by submitStar,
\* getBlockByHash or getBlockByHeight leaves every block stored in the chain
\* as it was.
C15_CallerGetsCopy ==
    [][CallerChangesBlock
           => \A i \in 1..Len(chain) : heap'[chain[i]] = heap[chain[i]]]_vars

\* C16: at every step the chain before is a prefix of the chain after, and
\* every block stored before has the same field values after, also when
\* _addBlock is called with a Block that _addBlock resolved with earlier.
C16_AppendOnlyHistory ==
    [][/\ Len(chain') >= Len(chain)
       /\ \A i \in 1..Len(chain) :
              /\ chain'[i] = chain[i]
              /\ heap'[chain'[i]] = heap[chain[i]]]_vars

\* C20: the hash _addBlock assigns is the digest of the block with its hash
\* field null, whatever the hash field held at the call, so that validate
\* resolves with true on the block _addBlock resolved with.
C20_HashOfNulledBlock ==
    \A c \in DOMAIN calls :
        (calls[c].op = "addBlock" /\ calls[c].status = "resolved"
            /\ microtasks # <<>> /\ Head(microtasks).kind = "adopt")
            => /\ heap[calls[c].block].hash =
                      SHA256(JSONstringifyBlock([heap[calls[c].block] EXCEPT !.hash = Null]))
               /\ Validate(heap[calls[c].block]).value

\* the heights whose block does not hold the stored hash of the block before
\* it (null for height 0)
BrokenLinks ==
    {k \in 0..(Len(chain) - 1) :
        heap[chain[k + 1]].previousBlockHash #
            (IF k = 0 THEN Null ELSE heap[chain[k]].hash)}

ValidateChainCalled(c) == calls[c].op = "none" /\ calls'[c].op = "validateChain"

\* C21: the list of validateChain has a LinkageBroken error for every height
\* whose block does not hold the stored hash of the block before it (null
\* at height 0); a changed hash of block k shows as an error at height k + 1.
C21_LinkageReported ==
    [][\A c \in DOMAIN calls :
           ValidateChainCalled(c)
               => \A k \in BrokenLinks :
                      Reported(calls'[c].errorLog, k, "LinkageBroken")]_vars

C21_Witness ==
    \E c \in DOMAIN calls :
        /\ calls[c].op = "validateChain"
        /\ <<1, "hash">> \in calls[c].changed
        /\ Reported(calls[c].errorLog, 2, "LinkageBroken")

\* the heights whose block fails: a broken link, or a hash that is not the
\* digest of the block
FailingBlocks ==
    BrokenLinks \cup {k \in 0..(Len(chain) - 1) : ~Validate(heap[chain[k + 1]]).value}

\* C22: validateChain resolves, and its list has an error for every failing
\* block of the chain, however many there are.
C22_FullScan ==
    [][\A c \in DOMAIN calls :
           ValidateChainCalled(c)
               => /\ calls'[c].status = "resolved"
                  /\ \A k \in FailingBlocks :
                         \E i \in 1..Len(calls'[c].errorLog) :
                             calls'[c].errorLog[i].height = k]_vars

\* C23: getBData on a block resolves with the data decoded from its body
\* when that is not the genesis data, and rejects, the data not being
\* available, exactly when it is {data: "Genesis Block"}, at any height.
C23_GenesisMarkerOnly ==
    \A c \in DOMAIN calls :
        (/\ calls[c].op = "getBData"
         /\ heap[chain[calls[c].target + 1]].body = pristine[chain[calls[c].target + 1]].body)
            => LET made == admitted[calls[c].target + 1]
               IN  IF made.genesis
                   THEN /\ calls[c].status = "rejected"
                        /\ calls[c].error = "Cannot return Genesis Block"
                   ELSE /\ calls[c].status = "resolved"
                        /\ Prop(calls[c].data, <<"owner">>) =
                               [defined |-> TRUE, val |-> made.owner]
                        /\ (\A i \in 1..Len(made.star) : made.star[i] # "deg")
                               => calls[c].data = StarData(made.owner, made.star)

C23_Witness ==
    \E c \in DOMAIN calls :
        /\ calls[c].op = "getBData"
        /\ calls[c].target = 1
        /\ admitted[2].genesis
        /\ calls[c].status = "rejected"

\* C24: getBData on a block whose body cannot be decoded rejects: the
\* failure is the settled result of the call, as for the genesis data, and
\* not an exception thrown by the call.
C24_DecodeErrorDelivered ==
    \A c \in DOMAIN calls :
        (/\ calls[c].op = "getBData"
         /\ heap[chain[calls[c].target + 1]].body = UndecodableBody)
            => calls[c].status = "rejected"

\* the chain indices of the stored blocks whose hash is x
HashMatches(x) == {i \in 1..Len(chain) : heap[chain[i]].hash = x}

C26_ChallengeFormat ==
    [][\A c \in DOMAIN calls :
           (calls[c].op = "none" /\ calls'[c].op = "requestMessage")
               => /\ calls'[c].status = "resolved"
                  /\ calls'[c].data =
                         calls'[c].address \o <<":">> \o NumToString(clock \div 1000)
                             \o <<":", "starRegistry">>
                  /\ UNCHANGED <<heap, chain, height>>]_vars

C26_Witness ==
    \E c \in DOMAIN calls :
        /\ calls[c].op = "requestMessage"
        /\ calls[c].address = <<"b">>
        /\ ticks >= 1
        /\ Len(chain) >= 2

\* C27: initializeChain on a ledger that has its genesis block changes
\* neither the chain nor the height nor a block, so that the chain holds one
\* genesis block, at height 0, whatever is called.
C27_InitializeOnce ==
    /\ [](Cardinality({i \in 1..Len(chain) : admitted[i].genesis}) = 1
              /\ admitted[1].genesis)
    /\ [][\A c \in DOMAIN calls :
              (calls[c].op = "none" /\ calls'[c].op = "initializeChain")
                  => UNCHANGED <<heap, chain, height>>]_vars

C27_Witness ==
    \E c \in DOMAIN calls :
        /\ calls[c].op = "initializeChain"
        /\ calls[c].heightBefore = 1
        /\ Len(chain) = 2

\* C28: whenever an operation can run, also between the steps of a
\* submission and after a validate, every Block object the ledger has made
\* is in the chain, with its hash (the digest of its other fields), its
\* height and its previous hash assigned, and the height counts it.
C28_NoPartialBlock ==
    /\ height = Len(chain) - 1
    /\ \A r \in 1..Len(heap) : \E i \in 1..Len(chain) : chain[i] = r
    /\ \A i \in 1..Len(chain) :
           LET b == heap[chain[i]]
           IN  /\ b.hash # Null
               /\ b.hash = SHA256(JSONstringifyBlock([b EXCEPT !.hash = Null]))
               /\ b.height = i - 1
               /\ b.previousBlockHash =
                      (IF i = 1 THEN Null ELSE heap[chain[i - 1]].hash)

C28_Witness ==
    \E c, d \in DOMAIN calls :
        /\ calls[c].op = "submitStar"
        /\ calls[c].pc = "awaitAdd"
        /\ calls[d].op = "validate"
        /\ chain[calls[d].target + 1] = calls[c].appended

Pending(c) == calls[c].op # "none" /\ calls[c].status = "pending"

LedgerOperations ==
    {"addBlock", "submitStar", "requestMessage", "getChainHeight",
     "getBlockByHash", "getBlockByHeight", "getStars", "validateChain"}

AppendClocks == {StartClock + (t * TickMs) : t \in 0..MaxTicks}

\* C30: the time of every block of the chain is the integer number of whole
\* seconds of the clock at its append, and the second segment of a
\* challenge message is the decimal text of the whole seconds of the clock
\* at the request.
C30_WholeSeconds ==
    /\ \A i \in 1..Len(chain) :
           \E ms \in AppendClocks :
               ms <= clock /\ heap[chain[i]].time = JSNumber(ms \div 1000)
    /\ \A c \in DOMAIN calls :
           calls[c].op = "requestMessage"
              => \E ms \in AppendClocks :
                     /\ ms <= clock
                     /\ Split(calls[c].data, ":")[2] = NumToString(ms \div 1000)

\* C31: the time submitStar parses from a message that was issued for the
\* address at the clock of the submission is the whole seconds of that
\* clock, also for an address that contains ":".
C31_ChallengeRoundTrip ==
    \A c \in SubmitCalls :
        /\ ~calls[c].msgTime.nan
        /\ calls[c].msgTime = calls[c].currentTime

\* C32: every submission of one and the same address, message and
\* signature, made less than 300 seconds after the time in the message,
\* is admitted, whatever was submitted before: it is not rejected, it
\* appends a Block object of its own at the height after the one it found,
\* and it resolves with that block.
C32_ChallengeReusable ==
    \A c \in SubmitCalls :
        (calls[c].signature = Signature(<<"a">>, IssuedMessage) /\ Elapsed(c) < 300)
            => /\ calls[c].status # "rejected"
               /\ calls[c].status = "resolved" => calls[c].block = calls[c].appended
               /\ calls[c].pc = "done" => calls[c].status = "resolved"
               /\ calls[c].pc \in {"awaitAdd", "done"}
                      => /\ calls[c].appended # 0
                         /\ heap[calls[c].appended].height = calls[c].heightBefore + 1
                         /\ chain[calls[c].heightBefore + 2] = calls[c].appended
                         /\ \A i \in 1..(calls[c].heightBefore + 1) :
                                chain[i] # calls[c].appended

\* the message has been admitted before, the clock has advanced, and a
\* further submission of it has resolved with the block at the top
C32_Witness ==
    /\ Len(chain) = MaxChain
    /\ clock > StartClock
    /\ \E c \in SubmitCalls :
           /\ calls[c].signature = Signature(<<"a">>, IssuedMessage)
           /\ calls[c].status = "resolved"
           /\ calls[c].block = chain[MaxChain]

\* C33: a submission whose message carries a time later than the clock is
\* never rejected as expired; signed by the address it resolves with the
\* block it appended.
C33_FutureNotExpired ==
    \A c \in SubmitCalls :
        (~calls[c].msgTime.nan /\ Elapsed(c) < 0)
            => /\ calls[c].error # "Date expired."
               /\ (calls[c].verified = "true" /\ calls[c].pc = "done")
                      => (calls[c].status = "resolved"
                            /\ calls[c].block = calls[c].appended)

C33_Witness ==
    \E c \in SubmitCalls :
        /\ Elapsed(c) = -300
        /\ calls[c].verified = "true"
        /\ calls[c].status = "resolved"

C35_HashUnique ==
    /\ \A i, j \in 1..Len(chain) :
           i # j => heap[chain[i]].hash # heap[chain[j]].hash
    /\ \A c \in DOMAIN calls :
           calls[c].op = "getBlockByHash"
               => \A i \in 1..Len(chain) :
                      heap[chain[i]].hash = calls[c].data
                          => /\ calls[c].block = chain[i]
                             /\ heap[chain[i]].height = i - 1

====
